---- MODULE Spec2Model ----
(***************************************************************************)
(* K-means clustering engine of auto-palette                               *)
(* (src/src/math/clustering/kmeans.rs): Kmeans::new and Kmeans::fit.       *)
(*                                                                         *)
(* Numbers.  Coordinates of the input points are small integers.  A        *)
(* centroid is a coordinate-wise mean, so it is kept as an exact rational  *)
(* point [sum, cnt] standing for sum[i] / cnt.  A value returned by        *)
(* DistanceMetric::measure is kept as the exact rational [num, den] of the *)
(* SQUARED Euclidean distance; x |-> x^2 is strictly increasing on the     *)
(* non-negative reals, so every `<`, `min` and `max` of the source is the  *)
(* same comparison on these values, and `d < tolerance` is                 *)
(* d^2 < tolerance^2 for the positive tolerances an engine can hold.       *)
(* f32::INFINITY is the value 1/0, f32 NaN is a flag; rounding of f32 is   *)
(* not modelled.                                                           *)
(*                                                                         *)
(* Indices.  Point indices are 0-based as in the source (they are what     *)
(* the caller sees in a cluster's membership); positions in TLA+           *)
(* sequences are 1-based, so point index i sits at points[i + 1] and       *)
(* cluster number j at clusters[j + 1].                                    *)
(***************************************************************************)
EXTENDS Integers, Sequences, FiniteSets, TLC

VARIABLES
    pc,         \* where the caller is: "start", "rejected", "ready",
                \* "seeding", "loop", "returned", "panicked"
    points,     \* the caller's input slice, fixed for the run
    args,       \* <<>> or <<the arguments handed to Kmeans::new>>
    engine,     \* <<>> or <<the Kmeans value new returned>>
    error,      \* <<>> or <<the Err message new returned>>
    rng,        \* fit's local `rng` (the clone of engine.rng)
    centroids,  \* fit's local `centroids`
    clusters,   \* fit's local `clusters`
    passes,     \* refinement passes completed by the current call
    max_shift,  \* fit's local `max_shift` of the last pass
    draws,      \* draws the current call took from the random source
    result,     \* <<>> or <<the Vec<Cluster> the last call returned>>
    prev        \* <<>> or <<what the call before it returned>>

vars == <<pc, points, args, engine, error, rng, centroids, clusters,
          passes, max_shift, draws, result, prev>>

(***************************************************************************)
(* Bounds of the model.                                                    *)
(***************************************************************************)
MaxPoints == 3
MaxK == 3
MaxIter == 2
MaxSeed == 11

(***************************************************************************)
(* The inputs the model runs on: every slice of at most MaxPoints          *)
(* one-dimensional points with a coordinate in Coords, and two named data  *)
(* sets.                                                                   *)
(***************************************************************************)
Coords == {0, 1, 3}

GridPoints == {<<c>> : c \in Coords}

GridInputs == UNION {[1..n -> GridPoints] : n \in 0..MaxPoints}

\* The four points of the worked example of the specification.
ExamplePoints == <<<<0, 0>>, <<0, 1>>, <<10, 10>>, <<10, 11>>>>

\* Six points on a line on which a refinement pass leaves a cluster empty.
SparsePoints == <<<<1>>, <<9>>, <<0>>, <<1>>, <<5>>, <<6>>>>

Inputs == GridInputs \cup {ExamplePoints, SparsePoints}

\* A tolerance argument: an f32 that is NaN or the rational num / den.
Tol(n, d) == [nan |-> FALSE, num |-> n, den |-> d]

NaNTol == [nan |-> TRUE, num |-> 0, den |-> 1]

Tolerances == {Tol(0 - 1, 1), Tol(0, 1), Tol(1, 2), NaNTol}

Metrics == {"Euclidean"}

(***************************************************************************)
(* Point, DistanceMetric and Cluster: the collaborators of the engine.     *)
(***************************************************************************)
Zero(n) == [i \in 1..n |-> 0]

\* A point read as an exact rational point.
FromPoint(point) == [sum |-> point, cnt |-> 1]

\* f32::INFINITY, the start value of every running minimum.
INFINITY == [num |-> 1, den |-> 0]

\* a < b on distance values (cross-multiplied; INFINITY is 1/0).
Less(a, b) == a.num * b.den < b.num * a.den

\* f32::min and f32::max on distance values.
Min(a, b) == IF Less(b, a) THEN b ELSE a

Max(a, b) == IF Less(a, b) THEN b ELSE a

RECURSIVE SqDiff(_, _, _)
SqDiff(a, b, i) ==
    IF i = 0 THEN 0
    ELSE SqDiff(a, b, i - 1)
         + (a.sum[i] * b.cnt - b.sum[i] * a.cnt)
           * (a.sum[i] * b.cnt - b.sum[i] * a.cnt)

\* DistanceMetric::measure: symmetric, non-negative, zero on equal points.
Measure(metric, a, b) ==
    [num |-> SqDiff(a, b, Len(a.sum)),
     den |-> (a.cnt * b.cnt) * (a.cnt * b.cnt)]

\* Cluster::new: no members.
ClusterNew(n) == [membership |-> <<>>, sum |-> Zero(n)]

\* Cluster::add_point: append to the membership.
AddPoint(cluster, index, point) ==
    [membership |-> Append(cluster.membership, index),
     sum |-> [i \in DOMAIN point |-> cluster.sum[i] + point[i]]]

\* Cluster::clear: drop all membership.
Clear(cluster) == ClusterNew(Len(cluster.sum))

\* Cluster::centroid: the coordinate-wise mean; the zero point when empty.
Centroid(cluster) ==
    IF cluster.membership = <<>>
    THEN [sum |-> Zero(Len(cluster.sum)), cnt |-> 1]
    ELSE [sum |-> cluster.sum, cnt |-> Len(cluster.membership)]

(***************************************************************************)
(* The random source R: Rng + Clone.  Its state is a natural number; a     *)
(* draw from a range of n values returns state % n and leaves state \div n *)
(* (the state read as a mixed-radix numeral, one digit per draw), so the   *)
(* seeds 0..MaxSeed cover every combination of the first draws.            *)
(***************************************************************************)
GenRange(r, n) == r % n

Advance(r, n) == r \div n

\* self.rng.clone()
Clone(r) == r

(***************************************************************************)
(* Kmeans::new                                                             *)
(***************************************************************************)
ErrClusters == "The number of clusters must be greater than zero."

ErrIterations == "The maximum number of iterations must be greater than zero."

ErrTolerance == "The tolerance must be greater than zero."

\* tolerance <= 0.0 (false for NaN)
LeqZero(tolerance) == ~tolerance.nan /\ tolerance.num <= 0

KmeansNewLax(k, max_iter, tolerance, r, metric) ==
    IF k = 0 THEN [ok |-> FALSE, err |-> ErrClusters]
    ELSE IF max_iter = 0 THEN [ok |-> FALSE, err |-> ErrIterations]
    ELSE IF ~tolerance.nan /\ tolerance.num < 0
         THEN [ok |-> FALSE, err |-> ErrTolerance]
    ELSE [ok |-> TRUE,
          value |-> [k |-> k, max_iter |-> max_iter, tolerance |-> tolerance,
                     rng |-> r, metric |-> metric]]

KmeansNew(k, max_iter, tolerance, r, metric) ==
    IF k = 0 THEN [ok |-> FALSE, err |-> ErrClusters]
    ELSE IF max_iter = 0 THEN [ok |-> FALSE, err |-> ErrIterations]
    ELSE IF LeqZero(tolerance) THEN [ok |-> FALSE, err |-> ErrTolerance]
    ELSE [ok |-> TRUE,
          value |-> [k |-> k, max_iter |-> max_iter, tolerance |-> tolerance,
                     rng |-> r, metric |-> metric]]

(***************************************************************************)
(* Kmeans::fit, piece by piece.                                            *)
(***************************************************************************)
\* points.is_empty()
IsEmpty(pts) == Len(pts) = 0

TooFewPointsStrict(k, pts) == k > Len(pts)

\* self.k >= points.len()
TooFewPoints(k, pts) == k >= Len(pts)

SingletonsShared(pts) ==
    [j \in 1..Len(pts) |-> AddPoint(ClusterNew(Len(pts[j])), 0, pts[j])]

\* One cluster per point: cluster number index holds point index alone.
Singletons(pts) ==
    [j \in 1..Len(pts) |->
        AddPoint(ClusterNew(Len(pts[j])), j - 1, pts[j])]

\* The inner loop of the seeding: the distance of a point to the nearest
\* of the centroids chosen so far, folded from INFINITY.
RECURSIVE NearestDistance(_, _, _, _)
NearestDistance(metric, point, cs, n) ==
    IF n = 0 THEN INFINITY
    ELSE Min(NearestDistance(metric, point, cs, n - 1),
             Measure(metric, FromPoint(point), cs[n]))

\* The `distances` vector of one seeding round.
Distances(metric, pts, cs) ==
    [i \in 1..Len(pts) |-> NearestDistance(metric, pts[i], cs, Len(cs))]

\* WeightedAliasIndex::new(distances) is Err exactly when no weight is
\* positive (the weights are finite and non-negative here).
WeightsRejected(distances) ==
    \A i \in 1..Len(distances) : distances[i].num = 0

\* The 0-based indices whose weight is positive, in increasing order.
RECURSIVE Positive(_, _)
Positive(distances, n) ==
    IF n = 0 THEN <<>>
    ELSE IF distances[n].num > 0
         THEN Append(Positive(distances, n - 1), n - 1)
         ELSE Positive(distances, n - 1)

\* weighted_index.sample(&mut rng): an index of positive weight.
Sample(distances, r) ==
    LET candidates == Positive(distances, Len(distances))
    IN  candidates[GenRange(r, Len(candidates)) + 1]

AfterSample(distances, r) ==
    Advance(r, Len(Positive(distances, Len(distances))))

ClearNone(cls) == cls

\* for cluster in &mut clusters { cluster.clear() }
ClearAll(cls) == [j \in 1..Len(cls) |-> Clear(cls[j])]

RECURSIVE NearestClusterLast(_, _, _, _, _, _)
NearestClusterLast(metric, point, cs, i, min_distance, cluster_id) ==
    IF i >= Len(cs) THEN cluster_id
    ELSE LET distance == Measure(metric, FromPoint(point), cs[i + 1])
         IN  IF ~Less(min_distance, distance)
             THEN NearestClusterLast(metric, point, cs, i + 1, distance, i)
             ELSE NearestClusterLast(metric, point, cs, i + 1,
                                     min_distance, cluster_id)

\* The scan over the centroids for one point: the number of the cluster
\* the point goes to.  i is the next 0-based centroid number to look at.
RECURSIVE NearestCluster(_, _, _, _, _, _)
NearestCluster(metric, point, cs, i, min_distance, cluster_id) ==
    IF i >= Len(cs) THEN cluster_id
    ELSE LET distance == Measure(metric, FromPoint(point), cs[i + 1])
         IN  IF Less(distance, min_distance)
             THEN NearestCluster(metric, point, cs, i + 1, distance, i)
             ELSE NearestCluster(metric, point, cs, i + 1,
                                 min_distance, cluster_id)

ClusterOf(metric, point, cs) ==
    NearestCluster(metric, point, cs, 0, INFINITY, 0)

\* The assignment pass over the first n points, from cleared clusters.
RECURSIVE Assign(_, _, _, _, _)
Assign(metric, pts, cs, cleared, n) ==
    IF n = 0 THEN cleared
    ELSE LET before == Assign(metric, pts, cs, cleared, n - 1)
             cluster_id == ClusterOf(metric, pts[n], cs)
         IN  [before EXCEPT ![cluster_id + 1] =
                                AddPoint(@, n - 1, pts[n])]

\* new_centroids: every cluster's centroid() after the pass.
NewCentroids(cls) == [j \in 1..Len(cls) |-> Centroid(cls[j])]

RECURSIVE MinShift(_, _, _, _)
MinShift(metric, old, new, n) ==
    IF n = 0 THEN INFINITY
    ELSE Min(MinShift(metric, old, new, n - 1),
             Measure(metric, old[n], new[n]))

\* max_shift: the largest distance between an old and a new centroid.
RECURSIVE MaxShift(_, _, _, _)
MaxShift(metric, old, new, n) ==
    IF n = 0 THEN [num |-> 0, den |-> 1]
    ELSE Max(MaxShift(metric, old, new, n - 1),
             Measure(metric, old[n], new[n]))

\* max_shift < self.tolerance (false when the tolerance is NaN)
Converged(shift, tolerance) ==
    /\ ~tolerance.nan
    /\ shift.num * (tolerance.den * tolerance.den)
         < (tolerance.num * tolerance.num) * shift.den

LoopContinuesInclusive(done, max_iter) == done <= max_iter

\* for _ in 0..self.max_iter: whether another pass follows `done` passes.
LoopContinues(done, max_iter) == done < max_iter

StoredRngShared(stored, local) == local

\* What self.rng holds once fit has drawn into its local `rng`: fit takes
\* &self and draws from a clone.
StoredRng(stored, local) == stored

(***************************************************************************)
(* The state machine.  A local of fit that is computed once and read       *)
(* several times is bound by \E x \in {value}, which has it computed once.  *)
(***************************************************************************)
NoShift == [num |-> 0, den |-> 1]

Init ==
    /\ pc = "start"
    /\ points = <<>>
    /\ args = <<>>
    /\ engine = <<>>
    /\ error = <<>>
    /\ rng = 0
    /\ centroids = <<>>
    /\ clusters = <<>>
    /\ passes = 0
    /\ max_shift = NoShift
    /\ draws = 0
    /\ result = <<>>
    /\ prev = <<>>

\* Kmeans::new(k, max_iter, tolerance, rng, metric)
New(k, max_iter, tolerance, r, metric) ==
    /\ pc = "start"
    /\ args' = <<[k |-> k, max_iter |-> max_iter, tolerance |-> tolerance,
                  rng |-> r, metric |-> metric]>>
    /\ LET made == KmeansNew(k, max_iter, tolerance, r, metric)
       IN  IF made.ok
           THEN /\ engine' = <<made.value>>
                /\ error' = <<>>
                /\ pc' = "ready"
           ELSE /\ engine' = <<>>
                /\ error' = <<made.err>>
                /\ pc' = "rejected"
    /\ UNCHANGED <<points, rng, centroids, clusters, passes, max_shift,
                   draws, result, prev>>

\* vec![Cluster::new(); self.k]
FreshClusters(k, pts) == [j \in 1..k |-> ClusterNew(Len(pts[1]))]

\* Entry of fit(points) up to the first centroid: the two early returns,
\* else the clone of the random source and the uniform draw of the first
\* centroid.  A later call on the same engine is given the same input.
FitEnter(pts) ==
    /\ pc = "ready" \/ (pc = "returned" /\ pts = points)
    /\ points' = pts
    /\ prev' = result
    /\ passes' = 0
    /\ max_shift' = NoShift
    /\ UNCHANGED <<args, error>>
    /\ LET self == engine[1]
       IN  IF IsEmpty(pts)
           THEN /\ result' = << <<>> >>
                /\ pc' = "returned"
                /\ clusters' = <<>>
                /\ centroids' = <<>>
                /\ draws' = 0
                /\ UNCHANGED <<rng, engine>>
           ELSE IF TooFewPoints(self.k, pts)
           THEN /\ result' = <<Singletons(pts)>>
                /\ pc' = "returned"
                /\ clusters' = <<>>
                /\ centroids' = <<>>
                /\ draws' = 0
                /\ UNCHANGED <<rng, engine>>
           ELSE LET local == Clone(self.rng)
                    index == GenRange(local, Len(pts))
                IN  /\ rng' = Advance(local, Len(pts))
                    /\ engine' = <<[self EXCEPT
                                      !.rng = StoredRng(@, rng')]>>
                    /\ draws' = 1
                    /\ centroids' = <<FromPoint(pts[index + 1])>>
                    /\ result' = <<>>
                    /\ IF self.k = 1
                       THEN /\ clusters' = FreshClusters(self.k, pts)
                            /\ pc' = "loop"
                       ELSE /\ clusters' = <<>>
                            /\ pc' = "seeding"

\* One round of `for _ in 1..self.k`: the distances to the nearest chosen
\* centroid, the weighted draw (or the panic of unwrap()), the push.  After
\* the last round the clusters are created and the refinement loop starts.
Seed ==
    /\ pc = "seeding"
    /\ \E self \in {engine[1]} :
       \E distances \in {Distances(self.metric, points, centroids)} :
           IF WeightsRejected(distances)
           THEN /\ pc' = "panicked"
                /\ UNCHANGED <<rng, engine, draws, centroids, clusters>>
           ELSE LET index == Sample(distances, rng)
                IN  /\ rng' = AfterSample(distances, rng)
                    /\ engine' = <<[self EXCEPT
                                      !.rng = StoredRng(@, rng')]>>
                    /\ draws' = draws + 1
                    /\ centroids' =
                           Append(centroids, FromPoint(points[index + 1]))
                    /\ IF Len(centroids') = self.k
                       THEN /\ clusters' = FreshClusters(self.k, points)
                            /\ pc' = "loop"
                       ELSE /\ clusters' = <<>>
                            /\ pc' = "seeding"
    /\ UNCHANGED <<points, args, error, passes, max_shift, result, prev>>

\* One pass of `for _ in 0..self.max_iter`: clear, assign, new centroids,
\* max shift, then break (and return), or adopt the new centroids and go
\* on, or adopt them and return because the range is exhausted.
Pass ==
    /\ pc = "loop"
    /\ \E self \in {engine[1]} :
       \E assigned \in {Assign(self.metric, points, centroids,
                               ClearAll(clusters), Len(points))} :
       \E new_centroids \in {NewCentroids(assigned)} :
       \E shift \in {MaxShift(self.metric, centroids, new_centroids,
                              Len(centroids))} :
           /\ clusters' = assigned
           /\ max_shift' = shift
           /\ passes' = passes + 1
           /\ IF Converged(shift, self.tolerance)
              THEN /\ UNCHANGED centroids
                   /\ result' = <<assigned>>
                   /\ pc' = "returned"
              ELSE /\ centroids' = new_centroids
                   /\ IF LoopContinues(passes + 1, self.max_iter)
                      THEN /\ UNCHANGED result
                           /\ pc' = "loop"
                      ELSE /\ result' = <<assigned>>
                           /\ pc' = "returned"
    /\ UNCHANGED <<points, args, engine, error, rng, draws, prev>>

Next ==
    \/ \E k \in 0..MaxK, max_iter \in 0..MaxIter, tolerance \in Tolerances,
          r \in 0..MaxSeed, metric \in Metrics :
          New(k, max_iter, tolerance, r, metric)
    \/ \E pts \in Inputs : FitEnter(pts)
    \/ Seed
    \/ Pass

Spec == Init /\ [][Next]_vars

\* fit is synchronous, single-threaded code: once entered, its loops run on.
FairSpec == Spec /\ WF_vars(Seed) /\ WF_vars(Pass)

(***************************************************************************)
(* Properties.                                                             *)
(***************************************************************************)
Returned == pc = "returned"

\* The engine on which fit runs.
Self == engine[1]

\* How often point index i is listed in the clusters cls.
RECURSIVE Listed(_, _, _)
Listed(cls, i, n) ==
    IF n = 0 THEN 0
    ELSE Listed(cls, i, n - 1)
         + Cardinality({m \in 1..Len(cls[n].membership) :
                            cls[n].membership[m] = i})

RECURSIVE Members(_, _)
Members(cls, n) ==
    IF n = 0 THEN 0 ELSE Members(cls, n - 1) + Len(cls[n].membership)

IsPartition(cls, n) ==
    /\ Members(cls, Len(cls)) = n
    /\ \A i \in 0..(n - 1) : Listed(cls, i, Len(cls)) = 1
    /\ \A j \in 1..Len(cls) : \A m \in 1..Len(cls[j].membership) :
           cls[j].membership[m] \in 0..(n - 1)

\* C1: whenever fit returns on a non-empty input, and at the end of every
\* assignment pass, the clusters partition the point indices 0..n-1: the
\* membership counts sum to n and every index is listed exactly once.
C1_Partition ==
    /\ (Returned /\ points # <<>>) => IsPartition(result[1], Len(points))
    /\ passes >= 1 => IsPartition(clusters, Len(points))

\* A run of the refinement loop over three points returned after a second
\* pass.
C1_Witness ==
    /\ Returned
    /\ Len(points) = 3
    /\ passes >= 2
    /\ Len(result[1]) = 2

\* C2: a call with k >= number of points > 0 returns one cluster per
\* point, in input order, cluster number i holding point index i alone,
\* and takes no draw, chooses no centroid and runs no pass.
C2_Degenerate ==
    (Returned /\ points # <<>> /\ Self.k >= Len(points)) =>
        /\ Len(result[1]) = Len(points)
        /\ \A j \in 1..Len(points) : result[1][j].membership = <<j - 1>>
        /\ draws = 0
        /\ passes = 0
        /\ centroids = <<>>

\* Three points and exactly three clusters asked for.
C2_Witness ==
    /\ Returned
    /\ Len(points) = 3
    /\ Self.k = 3
    /\ Len(result[1]) = 3

\* The number of distinct points of the input.
Distinct(pts) == Cardinality({pts[i] : i \in 1..Len(pts)})

IsSingletonBijection(cls, n) ==
    /\ Len(cls) = n
    /\ \A j \in 1..Len(cls) : Len(cls[j].membership) = 1
    /\ \A i \in 0..(n - 1) : Listed(cls, i, Len(cls)) = 1

\* C8 as stated: for every k >= the number of DISTINCT input points the
\* result is one singleton cluster per point.
C8_DistinctSingletons ==
    (Returned /\ points # <<>> /\ Self.k >= Distinct(points)) =>
        IsSingletonBijection(result[1], Len(points))

\* C8 as amended: for every k >= the number of input points (duplicates
\* counted) the result is one singleton cluster per point and the
\* membership is a bijection with the input indices.
C8_CountedSingletons ==
    (Returned /\ points # <<>> /\ Self.k >= Len(points)) =>
        IsSingletonBijection(result[1], Len(points))

\* An input with a duplicate point and as many clusters as points.
C8_Witness ==
    /\ Returned
    /\ Len(points) = 3
    /\ Distinct(points) = 2
    /\ Self.k = 3
    /\ IsSingletonBijection(result[1], 3)

\* Whether every centroid moved by less than the tolerance between the
\* centroids old and the centroids of the clusters cls.
AllShiftsBelow(old, cls, tolerance) ==
    \A j \in 1..Len(old) :
        Converged(Measure("Euclidean", old[j], Centroid(cls[j])), tolerance)

C3_Bounded ==
    /\ engine # <<>> => passes <= Self.max_iter
    /\ pc = "loop" => passes < Self.max_iter
    /\ (Returned /\ draws >= 1) => (passes >= 1 /\ result = <<clusters>>)

C3_Step ==
    pc = "loop" =>
        /\ passes' = passes + 1
        /\ IF AllShiftsBelow(centroids, clusters', Self.tolerance)
           THEN pc' = "returned"
           ELSE IF passes' < Self.max_iter
                THEN pc' = "loop"
                ELSE pc' = "returned"

\* C3: a call of fit that reaches the refinement loop returns.  The loop
\* runs at most max_iter passes and every step of it is one more pass:
\* after a pass in which every centroid moved by less than the tolerance
\* (the maximum shift is below it) fit returns at once, after any other
\* pass it goes on while fewer than max_iter passes are done and returns
\* once max_iter are done; what it returns is the assignment of its last
\* pass.
C3_Terminates ==
    /\ []C3_Bounded
    /\ [][C3_Step]_vars
    /\ (pc = "loop") ~> Returned

\* A run returned on exhausting max_iter = 2 although centroids still
\* moved in the second pass.
C3_Witness ==
    /\ Returned
    /\ passes = 2
    /\ Self.max_iter = 2
    /\ ~Converged(max_shift, Self.tolerance)
    /\ ~Self.tolerance.nan

\* C4: a second call of fit on the same engine and input returns what the
\* first returned, and the engine holds at all times exactly what it was
\* constructed with (k, max_iter, tolerance, metric and the state of the
\* random source).
C4_Deterministic ==
    /\ (Returned /\ prev # <<>>) => result = prev
    /\ engine # <<>> => engine = args

\* A second call that seeded two centroids and ran two passes.
C4_Witness ==
    /\ Returned
    /\ prev # <<>>
    /\ draws = 2
    /\ passes = 2
    /\ Self.rng > 0

\* C5: new fails exactly when k = 0, max_iter = 0 or tolerance <= 0, with
\* the message of the cluster count when k = 0, of the iterations when
\* max_iter = 0 (and k > 0), of the tolerance when tolerance <= 0 (and
\* k > 0, max_iter > 0); otherwise it returns an engine holding exactly
\* the arguments.  No engine has k = 0, max_iter = 0 or tolerance <= 0,
\* and fit runs only on an engine.
C5_Validated ==
    /\ pc = "start" => (engine = <<>> /\ error = <<>>)
    /\ pc # "start" =>
        LET a == args[1]
            bad_k == a.k = 0
            bad_iter == a.max_iter = 0
            bad_tolerance == ~a.tolerance.nan /\ a.tolerance.num <= 0
        IN  /\ bad_k => error = <<ErrClusters>>
            /\ (~bad_k /\ bad_iter) => error = <<ErrIterations>>
            /\ (~bad_k /\ ~bad_iter /\ bad_tolerance) =>
                   error = <<ErrTolerance>>
            /\ error # <<>> => (engine = <<>> /\ pc = "rejected")
            /\ (~bad_k /\ ~bad_iter /\ ~bad_tolerance) =>
                   /\ error = <<>>
                   /\ Len(engine) = 1
                   /\ Self.k = a.k
                   /\ Self.max_iter = a.max_iter
                   /\ Self.tolerance = a.tolerance
                   /\ Self.metric = a.metric
    /\ engine # <<>> =>
        /\ Self.k >= 1
        /\ Self.max_iter >= 1
        /\ Self.tolerance.nan \/ Self.tolerance.num > 0

\* new was given a valid k and max_iter and the tolerance 0, and rejected
\* it with the message of the tolerance.
C5_Witness ==
    /\ pc = "rejected"
    /\ args[1].k >= 1
    /\ args[1].max_iter >= 1
    /\ args[1].tolerance = Tol(0, 1)
    /\ error = <<ErrTolerance>>
    /\ engine = <<>>

\* C6 as stated: a failed weighted selection reaches the caller of fit as
\* an error value; fit never aborts on it.
C6_NoAbort == pc # "panicked"

\* Equality of two rational points.
SamePoint(a, b) ==
    \A i \in 1..Len(a.sum) : a.sum[i] * b.cnt = b.sum[i] * a.cnt

RECURSIVE SumOf(_, _, _, _)
SumOf(pts, membership, i, n) ==
    IF n = 0 THEN 0
    ELSE SumOf(pts, membership, i, n - 1) + pts[membership[n] + 1][i]

\* The coordinate-wise mean of the points listed in membership.
MeanOf(pts, membership) ==
    [sum |-> [i \in 1..Len(pts[1]) |->
                 SumOf(pts, membership, i, Len(membership))],
     cnt |-> Len(membership)]

C7_Step ==
    pc = "loop" =>
        \A j \in 1..Len(clusters') :
            IF clusters'[j].membership = <<>>
            THEN SamePoint(NewCentroids(clusters')[j], centroids[j])
            ELSE SamePoint(NewCentroids(clusters')[j],
                           MeanOf(points, clusters'[j].membership))

\* C7 as stated: in every pass a cluster that received no point has its
\* old centroid as new centroid, and every other cluster the mean of its
\* members.
C7_EmptyKeepsCentroid == [][C7_Step]_vars

\* The set of the point indices listed in a cluster.
MemberSet(cluster) ==
    {cluster.membership[m] : m \in 1..Len(cluster.membership)}

C10_Step ==
    pc = "loop" =>
        \A j \in 1..Len(clusters') :
            LET members == clusters'[j].membership
            IN  \A m \in 1..Len(members) :
                    LET point == FromPoint(points[members[m] + 1])
                        own == Measure(Self.metric, point, centroids[j])
                    IN  /\ \A other \in 1..Len(centroids) :
                               ~Less(Measure(Self.metric, point,
                                             centroids[other]), own)
                        /\ \A lower \in 1..(j - 1) :
                               Less(own, Measure(Self.metric, point,
                                                 centroids[lower]))
                        /\ m > 1 => members[m - 1] < members[m]

\* C10: in every pass each point is listed in a cluster whose centroid no
\* other centroid is nearer to it, every centroid of a lower number is
\* strictly farther (a tie goes to the lowest number), and each cluster
\* lists its members in increasing index order.
C10_Nearest == [][C10_Step]_vars

\* A pass just ended (the centroids it used are still held) in which a
\* point was at the same smallest distance from two centroids and went to
\* the lower-numbered one.
C10_Witness ==
    /\ Returned
    /\ passes >= 1
    /\ Converged(max_shift, Self.tolerance)
    /\ \E j \in 1..Len(centroids), other \in 1..Len(centroids) :
        \E i \in MemberSet(clusters[j]) :
            LET point == FromPoint(points[i + 1])
                own == Measure(Self.metric, point, centroids[j])
                far == Measure(Self.metric, point, centroids[other])
            IN  j < other /\ ~Less(own, far) /\ ~Less(far, own)

====
